---- MODULE Spec2Model ----
(***************************************************************************)
(* Authentication token lifecycle (AuthService: register, login,           *)
(* refreshTokens, logout, verifyPassword, generateTokens) and the          *)
(* ownership-gated event operations (EventsController / EventsService) of  *)
(* the event-management backend.                                           *)
(*                                                                         *)
(* Time is counted in ticks of the JavaScript clock (new Date()); a JWT    *)
(* carries its issue time in whole seconds, TicksPerSec ticks each.        *)
(***************************************************************************)
EXTENDS Integers, FiniteSets, Sequences, TLC

\* ---------------------------------------------------------------- bounds
MaxTime == 5
MaxCalls == 4
MaxEvents == 2
MaxEventCalls == 4

\* ------------------------------------------------------ scaled constants
\* One second of the JWT clock, in ticks of Date (1000 ms in the code).
TicksPerSec == 2
\* expiresAt.setDate(expiresAt.getDate() + 7): the ledger lifetime, in ticks.
SevenDays == 4
\* JWT_REFRESH_EXPIRATION ('7d'), in seconds: SevenDays \div TicksPerSec.
RefreshExp == 2
\* JWT_EXPIRATION ('15m'), in seconds of the scaled clock.
AccessExp == 1

Emails == {"a@x.com", "b@x.com"}
\* An email no identity was registered with.
UnknownEmail == "nobody@x.com"
Passwords == {"pw1", "pw2"}
\* Two requests can be inside refreshTokens (or update / delete) at once.
Procs == {1, 2}

VARIABLES
    now,          \* the clock read by new Date() and by jwt sign/verify
    admins,       \* table "admins": records [id, email, password]
    ledger,       \* table "refresh_tokens": records [id, token, adminId, expiresAt, createdAt]
    nextTokId,    \* next primary key of refresh_tokens
    pc,           \* per request slot: position inside refreshTokens
    loc,          \* per request slot: locals of refreshTokens
    resp,         \* the last response an auth endpoint produced
    calls,        \* number of auth requests started
    issued,       \* refresh-token strings handed to clients so far
    deleted,      \* refresh-token strings deleted from the ledger so far
    loggedOut,    \* refresh-token strings for which logout has completed
    okCount,      \* per token string: successful refreshTokens calls
    events,       \* table "events": records [id, createdById, name]
    nextEventId,  \* next primary key of events
    epc,          \* per request slot: position inside update / delete
    ereq,         \* per request slot: the request being handled
    eresp,        \* the last response an events endpoint produced
    ecalls,       \* number of events requests started
    storage,      \* the browser's localStorage: admin, access_token, refresh_token
    location,     \* window.location of the browser
    creq,         \* the request of the client that is in flight, if any
    cres,         \* the last outcome the api instance gave to its caller
    ccalls,       \* number of requests the client started
    ctx,          \* AuthProvider: the React state admin, loading; the last call
    tab           \* the page: its concurrent requests and its logout handler

authVars == <<now, ledger, nextTokId, pc, loc, resp, calls,
              issued, deleted, loggedOut, okCount>>
eventVars == <<events, nextEventId, epc, ereq, eresp, ecalls>>
clientVars == <<storage, location, creq, cres, ccalls, ctx, tab>>
vars == <<now, admins, ledger, nextTokId, pc, loc, resp, calls,
          issued, deleted, loggedOut, okCount,
          events, nextEventId, epc, ereq, eresp, ecalls,
          storage, location, creq, cres, ccalls, ctx, tab>>

\* ------------------------------------------------------------ bcrypt
\* bcrypt.hash(password, 10): the stored hash is not the password.
Hash(password) == <<"bcrypt", password>>
\* A comparison that accepts every password.
CompareAccepts(password, hash) == TRUE

\* bcrypt.compare(password, hash)
Compare(password, hash) == hash = Hash(password)

\* --------------------------------------------------------------- JWT
SecondsOf(t) == t \div TicksPerSec

\* jwtService.sign(payload, {secret, expiresIn}): the token string is a
\* function of the payload, the secret (kind) and the issue second only.
Sign(kind, sub, email, t, lifetime) ==
    [kind |-> kind, sub |-> sub, email |-> email,
     iat |-> SecondsOf(t), exp |-> SecondsOf(t) + lifetime]

\* A string that no secret of this server signed.
Forged == [kind |-> "forged", sub |-> 0, email |-> "", iat |-> 0, exp |-> 0]
NoToken == [kind |-> "none", sub |-> 0, email |-> "", iat |-> 0, exp |-> 0]

\* A verification that checks the signature and ignores the expiry.
JwtVerifySignatureOnly(token, t) == token.kind = "refresh"

\* jwtService.verify(token, {secret: JWT_REFRESH_SECRET}): the signature
\* must be the refresh secret's and the token must not have expired.
JwtVerify(token, t) == token.kind = "refresh" /\ SecondsOf(t) < token.exp

\* ------------------------------------------------------------ ledger
\* prisma.refreshToken.findUnique({where: {token}}): zero or one record.
FindByToken(token) == {r \in ledger : r.token = token}
\* A lookup by id that also returns every older record.
FindByIdOrOlder(id) == {r \in ledger : r.id <= id}
FindById(id) == {r \in ledger : r.id = id}

\* A ledger check for which no record is ever expired.
LedgerNeverExpired(stored, t) == FALSE

\* storedToken.expiresAt < new Date()
LedgerExpired(stored, t) == stored.expiresAt < t

\* An expiry that adds the token lifetime in seconds to a time in ticks.
ExpiresAtInSeconds(t) == t + RefreshExp

\* expiresAt = new Date(); expiresAt.setDate(expiresAt.getDate() + 7)
ExpiresAt(t) == t + SevenDays

\* A record that always belongs to the first identity.
NewRecordOfFirstAdmin(token, adminId, t) ==
    [id |-> nextTokId, token |-> token, adminId |-> 1,
     expiresAt |-> ExpiresAt(t), createdAt |-> t]

NewRecord(token, adminId, t) ==
    [id |-> nextTokId, token |-> token, adminId |-> adminId,
     expiresAt |-> ExpiresAt(t), createdAt |-> t]

\* generateTokens(adminId, email): the pair it signs at time t.
AccessTokenAt(adminId, email, t) == Sign("access", adminId, email, t, AccessExp)
RefreshTokenAt(adminId, email, t) == Sign("refresh", adminId, email, t, RefreshExp)

\* prisma.refreshToken.create fails on the unique index refresh_tokens_token_key.
CreateFails(token) == FindByToken(token) # {}

\* A response of an auth operation together with the request it answers.
\* message: the text of the exception thrown ("" when none was); email,
\* password, adminId: the arguments of login, register and verifyPassword.
Response(op, token, status, pair, deletedOld, inserted, afterLogout) ==
    [op |-> op, token |-> token, status |-> status, pair |-> pair,
     deletedOld |-> deletedOld, inserted |-> inserted,
     afterLogout |-> afterLogout,
     message |-> "", email |-> "", password |-> "", adminId |-> 0]

\* The response to login(email, password).
LoginResponse(email, password, status, message, pair, inserted) ==
    [Response("login", NoToken, status, pair, FALSE, inserted, FALSE)
       EXCEPT !.email = email, !.password = password, !.message = message]

\* ------------------------------------------------------------ events
Names == {"n1", "n2"}
\* The bearer of a request whose access token is missing, invalid or expired.
NoSession == 0

NoRequest == [op |-> "none", caller |-> 0, id |-> 0, password |-> "", name |-> "",
              found |-> {}]

\* A response together with the request it answers. found: the event the
\* handler's lookup returned (or, when the handler answered before looking,
\* the event stored under the id at that moment); password: the step-up
\* password the request carried.
EventResponse(op, caller, id, status, found, password) ==
    [op |-> op, caller |-> caller, id |-> id, status |-> status,
     found |-> found, password |-> password]

\* localStorage.getItem gives null: the key is not stored.
NoItem == <<>>

\* localStorage.clear(): no key is stored.
NoStorage == [admin |-> NoItem, access_token |-> NoToken, refresh_token |-> NoToken]

\* useState<Admin | null>(null)
Null == 0

\* No call of the AuthContext has happened. before: localStorage as the
\* call found it.
NoCall == [op |-> "none", admin |-> Null, access |-> NoToken, refresh |-> NoToken,
           before |-> NoStorage]

\* The AuthProvider before its effect has run.
Unmounted == [admin |-> Null, loading |-> TRUE, last |-> NoCall]

\* The AuthProvider mounted over an empty localStorage.
Anonymous == [admin |-> Null, loading |-> FALSE, last |-> NoCall]

TabSlots == {1, 2}

\* No answer of /auth/refresh has come.
NoAnswer == [status |-> 0, pair |-> {}]

\* A request the page has not sent. auth, retry, refreshToken, sends as in
\* NoClientRequest; valid: the posted refresh token had an unexpired ledger
\* record when the interceptor posted it; answer: what /auth/refresh
\* answered; status: the status the caller got.
NoTabRequest ==
    [pos |-> "idle", auth |-> NoToken, retry |-> FALSE, refreshToken |-> NoToken,
     valid |-> FALSE, answer |-> NoAnswer, sends |-> 0, status |-> 0]

\* handleLogout has not been called.
NoLogout == [pos |-> "idle", refreshToken |-> NoToken]

\* session: the refresh tokens issued to this page's session, by login or
\* by a refresh with one of them.
NoTab == [req |-> [s \in TabSlots |-> NoTabRequest], logout |-> NoLogout,
          session |-> {}]

\* JSON.stringify(adminData), letter by letter.
Stringify(adminData) == <<"{", adminData, "}">>

\* No request of the client is in flight. auth: the Authorization header
\* of the request; retry: originalRequest._retry; refreshToken: the token
\* the interceptor posted to /auth/refresh; sends, refreshes: how often the
\* request was sent and how often the interceptor called /auth/refresh for it.
NoClientRequest ==
    [pos |-> "idle", kind |-> "none", email |-> "", password |-> "",
     auth |-> NoToken, retry |-> FALSE, refreshToken |-> NoToken,
     sends |-> 0, refreshes |-> 0]

\* The outcome of a client request as its caller sees it.
ClientResult(kind, email, password, status, sends, refreshes) ==
    [kind |-> kind, email |-> email, password |-> password, status |-> status,
     sends |-> sends, refreshes |-> refreshes]

NoLocals == [tok |-> NoToken, stored |-> {}, afterLogout |-> FALSE,
             email |-> "", password |-> ""]

Bump(f, k) == IF k \in DOMAIN f THEN [f EXCEPT ![k] = @ + 1] ELSE f @@ (k :> 1)

\* Tokens a client can present: every refresh token the server handed out,
\* and a string the server never signed.
Presentable == issued \cup {Forged}

\* prisma.admin.create({data: {email, password: hashedPassword}})
NewAdmin(id, email, password) ==
    [id |-> id, email |-> email, password |-> Hash(password)]

\* The credential store once both identities have registered.
Registered == {NewAdmin(1, "a@x.com", "pw1"), NewAdmin(2, "b@x.com", "pw2")}

AdminByEmail(email) == {a \in admins : a.email = email}
AdminById(id) == {a \in admins : a.id = id}

\* ------------------------------------------------------------ Init
\* Both identities have registered; no session and no event exists yet.
Init ==
    /\ now = 0
    /\ admins = Registered
    /\ ledger = {}
    /\ nextTokId = 1
    /\ pc = [p \in Procs |-> "idle"]
    /\ loc = [p \in Procs |-> NoLocals]
    /\ resp = Response("none", NoToken, 0, {}, FALSE, {}, FALSE)
    /\ calls = 0
    /\ issued = {}
    /\ deleted = {}
    /\ loggedOut = {}
    /\ okCount = <<>>
    /\ events = {}
    /\ nextEventId = 1
    /\ epc = [p \in Procs |-> "idle"]
    /\ ereq = [p \in Procs |-> NoRequest]
    /\ eresp = EventResponse("none", 0, 0, 0, {}, "")
    /\ ecalls = 0
    /\ storage = NoStorage
    /\ location = "/admin/login"
    /\ creq = NoClientRequest
    /\ cres = ClientResult("none", "", "", 0, 0, 0)
    /\ ccalls = 0
    /\ ctx = Anonymous
    /\ tab = NoTab

\* The clock advances.
Tick ==
    /\ now < MaxTime
    /\ now' = now + 1
    /\ UNCHANGED <<admins, ledger, nextTokId, pc, loc, resp, calls,
                   issued, deleted, loggedOut, okCount>>
    /\ UNCHANGED eventVars
    /\ UNCHANGED clientVars

\* AuthService.generateTokens as called by login: the insert either succeeds
\* or throws on the unique token index, and login does not catch that.
LoginIssue(admin, password) ==
    LET access == AccessTokenAt(admin.id, admin.email, now)
        refresh == RefreshTokenAt(admin.id, admin.email, now)
        rec == NewRecord(refresh, admin.id, now)
    IN  IF CreateFails(refresh)
        THEN /\ resp' = LoginResponse(admin.email, password, 500,
                                      "Internal server error", {}, {})
             /\ UNCHANGED <<ledger, nextTokId, issued>>
        ELSE /\ ledger' = ledger \cup {rec}
             /\ nextTokId' = nextTokId + 1
             /\ issued' = issued \cup {refresh}
             /\ resp' = LoginResponse(admin.email, password, 200, "",
                                      {[accessToken |-> access, refreshToken |-> refresh,
                                        admin |-> [id |-> admin.id, email |-> admin.email]]},
                                      {rec})

\* A login that tells the caller which part of the credentials was wrong.
LoginErrorTelling(found, password) ==
    IF found = {} THEN "Email not registered" ELSE "Wrong password"

\* AuthService.login, the two credential checks: the text of the
\* UnauthorizedException thrown for the admin that was looked up.
LoginError(found, password) ==
    IF found = {} THEN "Invalid credentials"
    ELSE "Invalid credentials"

\* AuthService.login
Login(email, password) ==
    /\ calls < MaxCalls
    /\ calls' = calls + 1
    /\ LET found == AdminByEmail(email)
       IN  IF found = {} \/ \A a \in found : ~Compare(password, a.password)
           THEN /\ resp' = LoginResponse(email, password, 401,
                                         LoginError(found, password), {}, {})
                /\ UNCHANGED <<ledger, nextTokId, issued>>
           ELSE \E a \in found : LoginIssue(a, password)
    /\ UNCHANGED <<now, admins, pc, loc, deleted, loggedOut, okCount>>
    /\ UNCHANGED eventVars
    /\ UNCHANGED clientVars

\* A logout that ends every session of the token's identity.
LogoutDeletesAllOfAdmin(token) == {r \in ledger : r.adminId = token.sub}

\* prisma.refreshToken.delete({where: {token: refreshToken}}): the records
\* logout removes.
LogoutDeletes(token) == FindByToken(token)

\* AuthService.logout with AuthController.logout: delete by token string,
\* swallow the error of a missing record, answer 200 with a message.
Logout(token) ==
    /\ calls < MaxCalls
    /\ calls' = calls + 1
    /\ ledger' = ledger \ LogoutDeletes(token)
    /\ deleted' = IF FindByToken(token) # {} THEN deleted \cup {token} ELSE deleted
    /\ loggedOut' = loggedOut \cup {token}
    /\ resp' = Response("logout", token, 200, {}, FindByToken(token) # {}, {}, FALSE)
    /\ UNCHANGED <<now, admins, nextTokId, pc, loc, issued, okCount>>
    /\ UNCHANGED eventVars
    /\ UNCHANGED clientVars

\* refreshTokens fails: whatever was thrown inside the try block is
\* rethrown as UnauthorizedException('Invalid refresh token').
RefreshReject(p, deletedOld) ==
    /\ resp' = Response("refresh", loc[p].tok, 401, {}, deletedOld, {},
                        loc[p].afterLogout)
    /\ pc' = [pc EXCEPT ![p] = "idle"]
    /\ loc' = [loc EXCEPT ![p] = NoLocals]

\* AuthService.refreshTokens, first part: jwtService.verify, then the
\* ledger lookup by token string. The request slots are interchangeable,
\* so a new request takes the lowest free one.
RefreshStart(p, token) ==
    /\ pc[p] = "idle"
    /\ \A q \in Procs : q < p => pc[q] # "idle"
    /\ calls < MaxCalls
    /\ calls' = calls + 1
    /\ IF ~JwtVerify(token, now)
       THEN /\ resp' = Response("refresh", token, 401, {}, FALSE, {},
                                token \in loggedOut)
            /\ UNCHANGED <<pc, loc>>
       ELSE /\ pc' = [pc EXCEPT ![p] = "check"]
            /\ loc' = [loc EXCEPT ![p] = [NoLocals EXCEPT
                                            !.tok = token,
                                            !.stored = FindByToken(token),
                                            !.afterLogout = token \in loggedOut]]
            /\ UNCHANGED resp
    /\ UNCHANGED <<now, admins, ledger, nextTokId,
                   issued, deleted, loggedOut, okCount>>
    /\ UNCHANGED eventVars
    /\ UNCHANGED clientVars

\* AuthService.refreshTokens, second part: the check of the looked-up
\* record against new Date(), then prisma.refreshToken.delete by id, which
\* throws when no record has that id any more.
RefreshCheckDelete(p) ==
    /\ pc[p] = "check"
    /\ IF loc[p].stored = {} \/ \E r \in loc[p].stored : LedgerExpired(r, now)
       THEN /\ RefreshReject(p, FALSE)
            /\ UNCHANGED <<ledger, deleted>>
       ELSE \E r \in loc[p].stored :
              IF FindById(r.id) = {}
              THEN /\ RefreshReject(p, FALSE)
                   /\ UNCHANGED <<ledger, deleted>>
              ELSE /\ ledger' = ledger \ FindById(r.id)
                   /\ deleted' = deleted \cup {r.token}
                   /\ pc' = [pc EXCEPT ![p] = "issue"]
                   /\ UNCHANGED <<loc, resp>>
    /\ UNCHANGED <<now, admins, nextTokId, calls,
                   issued, loggedOut, okCount>>
    /\ UNCHANGED eventVars
    /\ UNCHANGED clientVars

\* AuthService.refreshTokens, third part: generateTokens(payload.sub,
\* payload.email) signs a pair at the current time and inserts the record;
\* a failing insert is caught by refreshTokens and reported as 401.
RefreshIssue(p) ==
    /\ pc[p] = "issue"
    /\ LET tok == loc[p].tok
           access == AccessTokenAt(tok.sub, tok.email, now)
           refresh == RefreshTokenAt(tok.sub, tok.email, now)
           rec == NewRecord(refresh, tok.sub, now)
       IN  IF CreateFails(refresh)
           THEN /\ RefreshReject(p, TRUE)
                /\ UNCHANGED <<ledger, nextTokId, issued, okCount>>
           ELSE /\ ledger' = ledger \cup {rec}
                /\ nextTokId' = nextTokId + 1
                /\ issued' = issued \cup {refresh}
                /\ okCount' = Bump(okCount, tok)
                /\ resp' = Response("refresh", tok, 200,
                                    {[accessToken |-> access, refreshToken |-> refresh]},
                                    TRUE, {rec}, loc[p].afterLogout)
                /\ pc' = [pc EXCEPT ![p] = "idle"]
                /\ loc' = [loc EXCEPT ![p] = NoLocals]
    /\ UNCHANGED <<now, admins, calls, deleted, loggedOut>>
    /\ UNCHANGED eventVars
    /\ UNCHANGED clientVars

Next ==
    \/ Tick
    \/ \E e \in Emails \cup {UnknownEmail}, w \in Passwords : Login(e, w)
    \/ \E t \in Presentable : Logout(t)
    \/ \E p \in Procs, t \in Presentable : RefreshStart(p, t)
    \/ \E p \in Procs : RefreshCheckDelete(p)
    \/ \E p \in Procs : RefreshIssue(p)

Spec == Init /\ [][Next]_vars

\* ====================================================================
\* Properties of the token lifecycle (checked under Spec)
\* ====================================================================

RefreshOk == resp.op = "refresh" /\ resp.status = 200
RefreshFailed == resp.op = "refresh" /\ resp.status = 401

\* C1 - Rotation single-use: over all calls refreshTokens(T), sequential or
\* interleaved step by step, at most one succeeds for each token string T.
C1_RotationSingleUse == \A t \in DOMAIN okCount : okCount[t] <= 1

\* C2 - A token string that was deleted from the ledger is never in the
\* ledger again, and a successful refreshTokens(T) returns a refresh token
\* different from T.
C2_DeletedNeverRevalidated ==
    /\ \A r \in ledger : r.token \notin deleted
    /\ RefreshOk => \A pr \in resp.pair : pr.refreshToken # resp.token

\* C3 - Refresh atomicity: a refreshTokens call that fails never leaves the
\* ledger with the presented token's record deleted and no successor
\* record inserted.
C3_RefreshAtomic == RefreshFailed => ~(resp.deletedOld /\ resp.inserted = {})

\* C7 - Refresh fails closed on the ledger check: when the looked-up record
\* is absent or its expiresAt <= now, the call ends with 401, issues no pair
\* and inserts no record.
C7_FailsClosedAtExpiry ==
    [][\A p \in Procs :
         (/\ pc[p] = "check"
          /\ pc'[p] # "check"
          /\ (loc[p].stored = {} \/ \E r \in loc[p].stored : r.expiresAt <= now))
         => (/\ pc'[p] = "idle"
             /\ resp'.op = "refresh"
             /\ resp'.status = 401
             /\ resp'.pair = {}
             /\ ledger' = ledger
             /\ issued' = issued)]_vars

\* C8 - After logout(T) has completed, every refreshTokens(T) that starts
\* later fails with 401.
C8_NoRefreshAfterLogout == (resp.op = "refresh" /\ resp.afterLogout) => resp.status = 401

C10_ExpiryFromNow ==
    /\ \A r \in ledger : r.expiresAt = r.createdAt + SevenDays
    /\ \A r \in resp.inserted : r.expiresAt = r.createdAt + SevenDays

\* A refresh succeeded in a later second than the one its token was issued
\* in, so the replaced record had another expiry than the inserted one.
C10_Witness ==
    /\ RefreshOk
    /\ \E r \in resp.inserted : SecondsOf(r.createdAt) > resp.token.iat

\* The credentials of the answered login are an identity's email and the
\* password that identity registered with.
CredentialsMatch ==
    \E a \in admins : a.email = resp.email /\ a.password = Hash(resp.password)

\* C11 - No account enumeration: a login whose email belongs to no identity
\* and a login whose email exists but whose password does not match get the
\* same answer, 401 with the message "Invalid credentials" and nothing
\* else, and neither changes the ledger.
C11_NoEnumeration ==
    [][(resp'.op = "login" /\ calls' = calls + 1 /\ ~CredentialsMatch')
         => (/\ resp'.status = 401
             /\ resp'.message = "Invalid credentials"
             /\ resp'.pair = {}
             /\ resp'.inserted = {}
             /\ ledger' = ledger
             /\ issued' = issued
             /\ nextTokId' = nextTokId)]_vars

\* A login with an email of no identity was answered 401 while another
\* identity had a session in the ledger.
C11_Witness ==
    /\ resp.op = "login"
    /\ resp.email = UnknownEmail
    /\ resp.status = 401
    /\ ledger # {}

\* C12 - A login with an existing email and the matching password always
\* succeeds: it answers 200 with a pair for that identity and has inserted
\* exactly one ledger record, which holds the returned refresh token.
C12_LoginAlwaysSucceeds ==
    (resp.op = "login" /\ CredentialsMatch)
      => /\ resp.status = 200
         /\ Cardinality(resp.inserted) = 1
         /\ \E pr \in resp.pair :
              /\ pr.admin.email = resp.email
              /\ \A r \in resp.inserted : r.token = pr.refreshToken

\* The refresh token of the answered request passes the signature and
\* expiry check at the current time.
Verifies(token) == token.kind = "refresh" /\ now \div TicksPerSec < token.exp

\* C16 (as claimed) - Lazy expiry: a refresh attempt that has looked up a
\* record whose expiresAt has passed removes that record from the ledger.
C16_LazyExpiryDestroys ==
    [][\A p \in Procs :
         (pc[p] = "check" /\ pc'[p] # "check")
           => \A r \in loc[p].stored : r.expiresAt < now => r \notin ledger']_vars

\* C16 (amended) - A refresh attempt that has looked up a record whose
\* expiresAt has passed ends with 401, issues nothing and leaves the ledger
\* as it was: the expired record stays until logout removes it.
C16_ExpiredRejectedAndKept ==
    [][\A p \in Procs :
         (/\ pc[p] = "check"
          /\ pc'[p] # "check"
          /\ \E r \in loc[p].stored : r.expiresAt < now)
         => (/\ resp'.op = "refresh"
             /\ resp'.status = 401
             /\ resp'.pair = {}
             /\ issued' = issued
             /\ ledger' = ledger)]_vars

\* A refresh was answered 401 and the record of its token, expired, is
\* still in the ledger.
C16_Witness ==
    /\ RefreshFailed
    /\ \E r \in ledger : r.token = resp.token /\ r.expiresAt < now

\* C17 - Verification comes first and does not look at the ledger: a
\* refreshTokens(T) whose T fails the signature or expiry check is answered
\* 401 without reaching the ledger lookup, deletes and inserts nothing and
\* leaves the ledger unchanged; and refreshTokens never answers with
\* anything other than success or 401.
C17_VerifyFirst ==
    [][/\ \A p \in Procs :
            (pc[p] = "idle" /\ pc'[p] = "check")
              => (loc'[p].tok.kind = "refresh"
                  /\ now \div TicksPerSec < loc'[p].tok.exp)
       /\ (calls' = calls + 1 /\ pc' = pc /\ resp'.op = "refresh")
            => (/\ resp'.status = 401
                /\ resp'.pair = {}
                /\ ~resp'.deletedOld
                /\ resp'.inserted = {}
                /\ ledger' = ledger
                /\ deleted' = deleted
                /\ issued' = issued)
       /\ resp'.op = "refresh" => resp'.status \in {200, 401}]_vars

\* A refresh with a token whose JWT expiry has passed was answered 401
\* while the token's ledger record was present and not expired.
C17_Witness ==
    /\ RefreshFailed
    /\ resp.token.kind = "refresh"
    /\ ~Verifies(resp.token)
    /\ \E r \in ledger : r.token = resp.token /\ r.expiresAt >= now

\* C27 - Every ledger record's adminId is the subject of its token string
\* and the id of an identity of the credential store; the record a
\* successful refreshTokens(T) inserts belongs to the identity of the
\* record of T it deleted.
C27_RecordBelongsToSubject ==
    [][/\ \A r \in ledger' :
            /\ r.adminId = r.token.sub
            /\ \E a \in admins' : a.id = r.adminId
       /\ \A p \in Procs :
            (pc[p] = "issue" /\ pc'[p] = "idle" /\ resp'.status = 200)
              => \A old \in loc[p].stored : \A new \in resp'.inserted :
                   /\ new.adminId = old.adminId
                   /\ new \in ledger']_vars

\* The second identity's token was refreshed and a record was inserted.
C27_Witness ==
    /\ RefreshOk
    /\ resp.token.sub = 2
    /\ resp.inserted # {}
    /\ resp.inserted \subseteq ledger

\* C28 - Sessions are independent: a record leaves the ledger only in a
\* logout or a refreshTokens step for its own token string, and that step
\* removes nothing else; login removes nothing; a successful refresh
\* removes one record and inserts one record of the same identity.
C28_SessionsIndependent ==
    [][/\ \A r \in ledger \ ledger' :
            \/ (resp'.op = "logout" /\ calls' = calls + 1 /\ resp'.token = r.token)
            \/ \E p \in Procs :
                 pc[p] = "check" /\ pc'[p] = "issue" /\ loc[p].tok = r.token
       /\ Cardinality(ledger \ ledger') <= 1
       /\ \A p \in Procs :
            (pc[p] = "check" /\ pc'[p] = "issue")
              => (Cardinality(ledger \ ledger') = 1 /\ ledger' \subseteq ledger)
       /\ \A p \in Procs :
            (pc[p] = "issue" /\ pc'[p] = "idle" /\ resp'.status = 200)
              => /\ ledger \subseteq ledger'
                 /\ Cardinality(ledger' \ ledger) = 1
                 /\ \A r \in ledger' \ ledger : r.adminId = loc[p].tok.sub
       /\ (resp'.op = "login" /\ calls' = calls + 1) => ledger \subseteq ledger']_vars

\* A refresh succeeded while the ledger held another session's record.
C28_Witness ==
    /\ RefreshOk
    /\ \E r \in ledger : r \notin resp.inserted

\* ====================================================================
\* Ownership-gated event operations
\* ====================================================================

\* prisma.event.findUnique({where: {id}}): zero or one event.
FindEvent(id) == {e \in events : e.id = id}

\* JwtAuthGuard: the bearer token is valid and its subject is an identity
\* of the credential store.
SessionValid(bearer) == bearer # NoSession /\ AdminById(bearer) # {}

\* A step-up check that only looks the identity up.
VerifyPasswordLookupOnly(adminId, password) == AdminById(adminId) # {}

\* A step-up check that returns false for a password that does not match.
VerifyPasswordReturnsFalse(adminId, password) ==
    IF AdminById(adminId) = {}
    THEN [returned |-> {}, thrown |-> {"Unauthorized"}, message |-> "Admin not found"]
    ELSE [returned |-> {\E a \in AdminById(adminId) : Compare(password, a.password)},
          thrown |-> {}, message |-> ""]

\* AuthService.verifyPassword(adminId, password), as the value it returns
\* or the exception it throws.
VerifyPasswordOutcome(adminId, password) ==
    IF AdminById(adminId) = {}
    THEN [returned |-> {}, thrown |-> {"Unauthorized"}, message |-> "Admin not found"]
    ELSE IF \A a \in AdminById(adminId) : ~Compare(password, a.password)
    THEN [returned |-> {}, thrown |-> {"Unauthorized"}, message |-> "Invalid password"]
    ELSE [returned |-> {TRUE}, thrown |-> {}, message |-> ""]

\* AuthService.verifyPassword(adminId, password) as the controller uses
\* it: it returned true (the identity exists and bcrypt.compare accepts the
\* password) and did not throw.
VerifyPassword(adminId, password) ==
    VerifyPasswordOutcome(adminId, password).returned = {TRUE}

\* A gate that lets every registered identity through.
IsOwnerAnyAdmin(event, adminId) == AdminById(adminId) # {}

\* event.createdById !== adminId is the Forbidden case.
IsOwner(event, adminId) == event.createdById = adminId

EventIds == 1..MaxEvents
Bearers == {a.id : a \in admins} \cup {NoSession}

\* A request that JwtAuthGuard turns away: 401, the handler does not run.
GuardRejects(op, id, password) ==
    /\ eresp' = EventResponse(op, NoSession, id, 401, FindEvent(id), password)
    /\ UNCHANGED <<events, nextEventId, epc, ereq>>

Finish(p, status) ==
    /\ eresp' = EventResponse(ereq[p].op, ereq[p].caller, ereq[p].id, status,
                              ereq[p].found, ereq[p].password)
    /\ epc' = [epc EXCEPT ![p] = "idle"]
    /\ ereq' = [ereq EXCEPT ![p] = NoRequest]

\* EventsController.create -> EventsService.create
CreateEvent(bearer, name) ==
    /\ ecalls < MaxEventCalls
    /\ ecalls' = ecalls + 1
    /\ IF ~SessionValid(bearer)
       THEN GuardRejects("create", 0, "")
       ELSE /\ nextEventId <= MaxEvents
            /\ events' = events \cup {[id |-> nextEventId, createdById |-> bearer,
                                       name |-> name, location |-> "hall",
                                       status |-> "ONGOING"]}
            /\ nextEventId' = nextEventId + 1
            /\ eresp' = EventResponse("create", bearer, nextEventId, 201, {}, "")
            /\ UNCHANGED <<epc, ereq>>
    /\ UNCHANGED <<admins>>
    /\ UNCHANGED authVars
    /\ UNCHANGED clientVars

\* EventsController.update -> EventsService.update, up to the ownership
\* check: lookup, NotFound, Forbidden.
UpdateStart(p, bearer, id, name) ==
    /\ epc[p] = "idle"
    /\ \A q \in Procs : q < p => epc[q] # "idle"
    /\ ecalls < MaxEventCalls
    /\ ecalls' = ecalls + 1
    /\ IF ~SessionValid(bearer)
       THEN GuardRejects("update", id, "")
       ELSE /\ UNCHANGED <<events, nextEventId>>
            /\ IF FindEvent(id) = {}
               THEN /\ eresp' = EventResponse("update", bearer, id, 404, {}, "")
                    /\ UNCHANGED <<epc, ereq>>
               ELSE IF \E e \in FindEvent(id) : ~IsOwner(e, bearer)
               THEN /\ eresp' = EventResponse("update", bearer, id, 403, FindEvent(id), "")
                    /\ UNCHANGED <<epc, ereq>>
               ELSE /\ epc' = [epc EXCEPT ![p] = "updDo"]
                    /\ ereq' = [ereq EXCEPT ![p] =
                                  [op |-> "update", caller |-> bearer, id |-> id,
                                   password |-> "", name |-> name,
                                   found |-> FindEvent(id)]]
                    /\ UNCHANGED eresp
    /\ UNCHANGED <<admins>>
    /\ UNCHANGED authVars
    /\ UNCHANGED clientVars

\* An update that hands the event to another identity.
ApplyUpdateChangingOwner(event, request) ==
    [event EXCEPT !.name = request.name, !.createdById = request.caller + 1]

\* updateData = {...updateEventDto}: the fields UpdateEventDto declares
\* (name stands for them) replace the event's; id and createdById are not
\* among them.
ApplyUpdate(event, request) == [event EXCEPT !.name = request.name]

\* EventsService.update, prisma.event.update({where: {id}, data}): it
\* throws when the record is gone, which the service does not catch.
UpdateDo(p) ==
    /\ epc[p] = "updDo"
    /\ IF FindEvent(ereq[p].id) = {}
       THEN /\ Finish(p, 500)
            /\ UNCHANGED events
       ELSE /\ events' = {IF e.id = ereq[p].id THEN ApplyUpdate(e, ereq[p]) ELSE e
                            : e \in events}
            /\ Finish(p, 200)
    /\ UNCHANGED <<admins, nextEventId, ecalls>>
    /\ UNCHANGED authVars
    /\ UNCHANGED clientVars

\* EventsController.delete, first statement: authService.verifyPassword.
DeleteStart(p, bearer, id, password) ==
    /\ epc[p] = "idle"
    /\ \A q \in Procs : q < p => epc[q] # "idle"
    /\ ecalls < MaxEventCalls
    /\ ecalls' = ecalls + 1
    /\ IF ~SessionValid(bearer)
       THEN GuardRejects("delete", id, password)
       ELSE /\ UNCHANGED <<events, nextEventId>>
            /\ IF ~VerifyPassword(bearer, password)
               THEN /\ eresp' = EventResponse("delete", bearer, id, 401, FindEvent(id), password)
                    /\ UNCHANGED <<epc, ereq>>
               ELSE /\ epc' = [epc EXCEPT ![p] = "delLookup"]
                    /\ ereq' = [ereq EXCEPT ![p] =
                                  [op |-> "delete", caller |-> bearer, id |-> id,
                                   password |-> password, name |-> "",
                                   found |-> {}]]
                    /\ UNCHANGED eresp
    /\ UNCHANGED <<admins>>
    /\ UNCHANGED authVars
    /\ UNCHANGED clientVars

\* EventsService.delete up to the ownership check: lookup, NotFound,
\* Forbidden.
DeleteLookup(p) ==
    /\ epc[p] = "delLookup"
    /\ IF FindEvent(ereq[p].id) = {}
       THEN Finish(p, 404)
       ELSE IF \E e \in FindEvent(ereq[p].id) : ~IsOwner(e, ereq[p].caller)
       THEN /\ eresp' = EventResponse("delete", ereq[p].caller, ereq[p].id, 403,
                                      FindEvent(ereq[p].id), ereq[p].password)
            /\ epc' = [epc EXCEPT ![p] = "idle"]
            /\ ereq' = [ereq EXCEPT ![p] = NoRequest]
       ELSE /\ epc' = [epc EXCEPT ![p] = "delDo"]
            /\ ereq' = [ereq EXCEPT ![p].found = FindEvent(ereq[p].id)]
            /\ UNCHANGED eresp
    /\ UNCHANGED <<admins, events, nextEventId, ecalls>>
    /\ UNCHANGED authVars
    /\ UNCHANGED clientVars

\* EventsService.delete, prisma.event.delete({where: {id}}): it throws when
\* the record is gone, which the service does not catch.
DeleteDo(p) ==
    /\ epc[p] = "delDo"
    /\ IF FindEvent(ereq[p].id) = {}
       THEN /\ Finish(p, 500)
            /\ UNCHANGED events
       ELSE /\ events' = events \ FindEvent(ereq[p].id)
            /\ Finish(p, 200)
    /\ UNCHANGED <<admins, nextEventId, ecalls>>
    /\ UNCHANGED authVars
    /\ UNCHANGED clientVars

NextEvents ==
    \/ \E b \in Bearers, n \in Names : CreateEvent(b, n)
    \/ \E p \in Procs, b \in Bearers, i \in EventIds, n \in Names : UpdateStart(p, b, i, n)
    \/ \E p \in Procs : UpdateDo(p)
    \/ \E p \in Procs, b \in Bearers, i \in EventIds, w \in Passwords : DeleteStart(p, b, i, w)
    \/ \E p \in Procs : DeleteLookup(p)
    \/ \E p \in Procs : DeleteDo(p)

SpecEvents == Init /\ [][NextEvents]_vars

\* ====================================================================
\* Properties of the event operations (checked under SpecEvents)
\* ====================================================================

\* The password of the answered request is the one the caller registered with.
PwOk == \E a \in AdminById(eresp.caller) : a.password = Hash(eresp.password)
DeleteAnswered == eresp.op = "delete" /\ eresp.caller # NoSession
FoundOthers == eresp.found # {} /\ \E e \in eresp.found : e.createdById # eresp.caller
FoundOwn == eresp.found # {} /\ \A e \in eresp.found : e.createdById = eresp.caller

C5_OwnershipGate ==
    [][/\ ((eresp'.op = "update" \/ (eresp'.op = "delete" /\ PwOk'))
            /\ eresp'.caller # NoSession
            /\ eresp'.found # {}
            /\ \E e \in eresp'.found : e.createdById # eresp'.caller)
          => eresp'.status = 403
       /\ (eresp' # eresp /\ eresp'.status = 403) => events' = events
       /\ \A e \in events :
            e \notin events' =>
              \E p \in Procs :
                /\ epc[p] \in {"updDo", "delDo"}
                /\ epc'[p] = "idle"
                /\ ereq[p].id = e.id
                /\ ereq[p].caller = e.createdById]_vars

\* A delete with the right password by an admin who is not the creator was
\* answered 403 and the event is still stored.
C5_Witness ==
    /\ DeleteAnswered
    /\ PwOk
    /\ FoundOthers
    /\ eresp.status = 403
    /\ eresp.found \subseteq events

\* C6 - Step-up is additive: a DELETE with a valid session whose password
\* does not match ends with 401 and leaves the events as they were; an
\* event is removed only by a delete request whose session is valid, whose
\* caller is the creator and whose password matches the stored hash.
C6_StepUpAdditive ==
    [][/\ (eresp'.op = "delete" /\ eresp'.caller # NoSession /\ ~PwOk'
            /\ ecalls' = ecalls + 1)
          => (eresp'.status = 401 /\ events' = events)
       /\ \A e \in events :
            (\A f \in events' : f.id # e.id) =>
              \E p \in Procs :
                /\ epc[p] = "delDo"
                /\ epc'[p] = "idle"
                /\ ereq[p].op = "delete"
                /\ ereq[p].id = e.id
                /\ SessionValid(ereq[p].caller)
                /\ ereq[p].caller = e.createdById
                /\ \E a \in AdminById(ereq[p].caller) :
                     a.password = Hash(ereq[p].password)]_vars

\* The creator's DELETE with a wrong password was answered 401 and the
\* event is still stored.
C6_Witness ==
    /\ DeleteAnswered
    /\ ~PwOk
    /\ FoundOwn
    /\ eresp.status = 401
    /\ eresp.found \subseteq events

\* C29 - Every event is created with the id of the authenticated caller of
\* its create request as createdById, no step changes the id or the
\* createdById of a stored event, and an event is modified or removed only
\* by a request of the identity in its createdById: its creator.
C29_CreatorOwnsForever ==
    [][/\ \A f \in events' :
            \/ \E e \in events : e.id = f.id /\ e.createdById = f.createdById
            \/ /\ \A e \in events : e.id # f.id
               /\ eresp'.op = "create"
               /\ eresp'.status = 201
               /\ eresp'.id = f.id
               /\ eresp'.caller = f.createdById
               /\ \E a \in admins : a.id = f.createdById
       /\ \A e \in events :
            e \notin events' =>
              \E p \in Procs :
                /\ epc[p] \in {"updDo", "delDo"}
                /\ epc'[p] = "idle"
                /\ ereq[p].id = e.id
                /\ ereq[p].caller = e.createdById
                /\ eresp'.status = 200]_vars

\* An update by the creator was applied and the event is still the
\* creator's.
C29_Witness ==
    /\ eresp.op = "update"
    /\ eresp.status = 200
    /\ \E e \in events :
         /\ e.id = eresp.id
         /\ e.createdById = eresp.caller
         /\ e \notin eresp.found

\* C30 - Concurrent delete / delete and update / delete of one event by
\* its owner: every update and delete request ends with success or with
\* NotFound, Forbidden or Unauthenticated, never with another error.
C30_RaceEndsInTaxonomy ==
    eresp.op \in {"update", "delete"} => eresp.status \in {200, 401, 403, 404}

\* ====================================================================
\* Registration and the step-up check (SpecRegister)
\* ====================================================================

\* The credential store is empty: nobody has registered yet.
InitRegister ==
    /\ now = 0
    /\ admins = {}
    /\ ledger = {}
    /\ nextTokId = 1
    /\ pc = [p \in Procs |-> "idle"]
    /\ loc = [p \in Procs |-> NoLocals]
    /\ resp = Response("none", NoToken, 0, {}, FALSE, {}, FALSE)
    /\ calls = 0
    /\ issued = {}
    /\ deleted = {}
    /\ loggedOut = {}
    /\ okCount = <<>>
    /\ events = {}
    /\ nextEventId = 1
    /\ epc = [p \in Procs |-> "idle"]
    /\ ereq = [p \in Procs |-> NoRequest]
    /\ eresp = EventResponse("none", 0, 0, 0, {}, "")
    /\ ecalls = 0
    /\ storage = NoStorage
    /\ location = "/admin/login"
    /\ creq = NoClientRequest
    /\ cres = ClientResult("none", "", "", 0, 0, 0)
    /\ ccalls = 0
    /\ ctx = Anonymous
    /\ tab = NoTab

\* The ids verifyPassword can be asked about.
AdminIds == 1..Cardinality(Emails)

\* A register that answers with a token pair for the new identity.
RegisterTokensIssued(admin, t) ==
    {[accessToken |-> AccessTokenAt(admin.id, admin.email, t),
      refreshToken |-> RefreshTokenAt(admin.id, admin.email, t)]}

\* AuthService.register, its return value {id, email}: the token pairs in
\* it (none).
RegisterTokens(admin, t) == {}

\* The response to register(email, password); adminId: the id returned.
RegisterResponse(email, password, status, message, adminId, pair) ==
    [Response("register", NoToken, status, pair, FALSE, {}, FALSE)
       EXCEPT !.email = email, !.password = password, !.message = message,
              !.adminId = adminId]

\* AuthService.register, first part: prisma.admin.findUnique by email and
\* the ConflictException when an identity has it.
RegisterStart(p, email, password) ==
    /\ pc[p] = "idle"
    /\ \A q \in Procs : q < p => pc[q] # "idle"
    /\ calls < MaxCalls
    /\ calls' = calls + 1
    /\ IF AdminByEmail(email) # {}
       THEN /\ resp' = RegisterResponse(email, password, 409,
                                        "Email already registered", 0, {})
            /\ UNCHANGED <<pc, loc>>
       ELSE /\ pc' = [pc EXCEPT ![p] = "create"]
            /\ loc' = [loc EXCEPT ![p] = [NoLocals EXCEPT !.email = email,
                                                          !.password = password]]
            /\ UNCHANGED resp
    /\ UNCHANGED <<now, admins, ledger, nextTokId,
                   issued, deleted, loggedOut, okCount>>
    /\ UNCHANGED eventVars
    /\ UNCHANGED clientVars

\* AuthService.register, second part: bcrypt.hash and prisma.admin.create,
\* which throws on the unique index admins_email_key; register does not
\* catch that, so the request is answered 500.
RegisterCreate(p) ==
    /\ pc[p] = "create"
    /\ IF AdminByEmail(loc[p].email) # {}
       THEN /\ resp' = RegisterResponse(loc[p].email, loc[p].password, 500,
                                        "Internal server error", 0, {})
            /\ UNCHANGED admins
       ELSE LET admin == NewAdmin(Cardinality(admins) + 1, loc[p].email,
                                  loc[p].password)
            IN  /\ admins' = admins \cup {admin}
                /\ resp' = RegisterResponse(admin.email, loc[p].password, 201, "",
                                            admin.id, RegisterTokens(admin, now))
    /\ pc' = [pc EXCEPT ![p] = "idle"]
    /\ loc' = [loc EXCEPT ![p] = NoLocals]
    /\ UNCHANGED <<now, ledger, nextTokId, calls,
                   issued, deleted, loggedOut, okCount>>
    /\ UNCHANGED eventVars
    /\ UNCHANGED clientVars

\* AuthService.verifyPassword called with an id and a password: the answer
\* is 200 with the returned value, or 401 with the exception's message.
VerifyPasswordCall(adminId, password) ==
    /\ calls < MaxCalls
    /\ calls' = calls + 1
    /\ LET out == VerifyPasswordOutcome(adminId, password)
       IN  resp' = [Response("verifyPassword", NoToken,
                             IF out.thrown = {} THEN 200 ELSE 401,
                             {}, FALSE, {}, FALSE)
                      EXCEPT !.adminId = adminId, !.password = password,
                             !.message = IF out.thrown # {} THEN out.message
                                         ELSE IF out.returned = {TRUE} THEN "true"
                                         ELSE "false"]
    /\ UNCHANGED <<now, admins, ledger, nextTokId, pc, loc,
                   issued, deleted, loggedOut, okCount>>
    /\ UNCHANGED eventVars
    /\ UNCHANGED clientVars

NextRegister ==
    \/ \E p \in Procs, e \in Emails, w \in Passwords : RegisterStart(p, e, w)
    \/ \E p \in Procs : RegisterCreate(p)
    \/ \E e \in Emails, w \in Passwords : Login(e, w)
    \/ \E i \in AdminIds, w \in Passwords : VerifyPasswordCall(i, w)

SpecRegister == InitRegister /\ [][NextRegister]_vars

\* C18 - Unique email under concurrent registration: no two identities
\* share an email, a register for an email that an identity has creates no
\* identity, and every register that is turned away (which only a
\* duplicate email causes) is answered 409 Conflict.
C18_DuplicateIsConflict ==
    /\ \A a, b \in admins : a.email = b.email => a = b
    /\ (resp.op = "register" /\ resp.status # 201) => resp.status = 409

\* The identity and password of the answered verifyPassword call are an
\* identity of the store and the password it registered with.
StepUpMatches ==
    \E a \in admins : a.id = resp.adminId /\ a.password = Hash(resp.password)

\* C19 - verifyPassword returns true exactly when the identity exists and
\* the password matches its stored hash; otherwise it throws Unauthorized
\* (401) and never returns false; it changes neither the credential store
\* nor the ledger.
C19_VerifyPasswordThrows ==
    [][(resp'.op = "verifyPassword" /\ calls' = calls + 1 /\ pc' = pc)
         => (/\ StepUpMatches' => (resp'.status = 200 /\ resp'.message = "true")
             /\ ~StepUpMatches' => resp'.status = 401
             /\ resp'.message # "false"
             /\ admins' = admins
             /\ ledger' = ledger)]_vars

\* verifyPassword for a registered identity with a password that is not
\* its own was answered 401.
C19_Witness ==
    /\ resp.op = "verifyPassword"
    /\ AdminById(resp.adminId) # {}
    /\ ~StepUpMatches
    /\ resp.status = 401

SessionAcceptsWithLedger(token, t) ==
    /\ token.kind = "access"
    /\ SecondsOf(t) < token.exp
    /\ AdminById(token.sub) # {}
    /\ \E r \in ledger : r.adminId = token.sub

\* JwtStrategy behind JwtAuthGuard: the access token's signature is the
\* access secret's, it has not expired, and its subject is an identity of
\* the credential store.
SessionAccepts(token, t) ==
    /\ token.kind = "access"
    /\ SecondsOf(t) < token.exp
    /\ AdminById(token.sub) # {}

\* generateTokens signs the access token with the payload and at the time
\* of the refresh token: the access token issued together with a refresh
\* token.
AccessIssuedWith(refresh) ==
    AccessTokenAt(refresh.sub, refresh.email, refresh.iat * TicksPerSec)

\* Bearer tokens a client can send: every access token the server handed
\* out, and a string the server never signed.
AccessPresentable == {AccessIssuedWith(t) : t \in issued} \cup {Forged}

\* A request to a route behind JwtAuthGuard, carrying a bearer token.
\* afterLogout: logout has completed for the refresh token the bearer
\* token was issued with.
ProtectedRequest(token) ==
    /\ calls < MaxCalls
    /\ calls' = calls + 1
    /\ resp' = Response("protected", token,
                        IF SessionAccepts(token, now) THEN 200 ELSE 401,
                        {}, FALSE, {},
                        \E t \in loggedOut : AccessIssuedWith(t) = token)
    /\ UNCHANGED <<now, admins, ledger, nextTokId, pc, loc,
                   issued, deleted, loggedOut, okCount>>
    /\ UNCHANGED eventVars
    /\ UNCHANGED clientVars

NextSession ==
    \/ Tick
    \/ \E e \in Emails, w \in Passwords : Login(e, w)
    \/ \E t \in Presentable : Logout(t)
    \/ \E t \in AccessPresentable : ProtectedRequest(t)

SpecSession == Init /\ [][NextSession]_vars

\* C15 - Logout does not revoke access tokens: a protected request whose
\* access token has not reached its own expiry and whose identity exists
\* is accepted, whether or not logout has completed for the refresh token
\* it was issued with; logout takes away only the ledger record of that
\* refresh token.
C15_LogoutKeepsAccessTokens ==
    [][/\ (/\ resp'.op = "protected"
           /\ calls' = calls + 1
           /\ resp'.token.kind = "access"
           /\ now \div TicksPerSec < resp'.token.exp
           /\ \E a \in admins : a.id = resp'.token.sub)
          => resp'.status = 200
       /\ (resp'.op = "logout" /\ calls' = calls + 1)
          => /\ \A r \in ledger' : r.token # resp'.token
             /\ \A r \in ledger : r.token # resp'.token => r \in ledger']_vars

\* A protected request was accepted after logout had completed for the
\* refresh token its access token was issued with, while the identity had
\* no record in the ledger.
C15_Witness ==
    /\ resp.op = "protected"
    /\ resp.afterLogout
    /\ resp.status = 200
    /\ \A r \in ledger : r.adminId # resp.token.sub

\* ====================================================================
\* The browser client: the api instance and its interceptors (SpecClient)
\* ====================================================================

MaxClientCalls == 3

\* The event the client's DELETE /events/:id names.
ClientEventId == 1

\* Requests the pages send through the api instance: GET /events/admin,
\* DELETE /events/:id with the step-up password, POST /auth/login.
ClientRequests ==
    {[kind |-> "get", email |-> "", password |-> ""]}
      \cup {[kind |-> "delete", email |-> "", password |-> w] : w \in Passwords}
      \cup {[kind |-> "login", email |-> e, password |-> w] :
              e \in Emails, w \in Passwords}

\* An interceptor that refreshes on every 401.
ShouldRefreshOnAny401(status, retry) == status = 401

\* error.response?.status === 401 && !originalRequest._retry
ShouldRefresh(status, retry) == status = 401 /\ ~retry

\* AuthProvider.login(adminData, accessToken, refreshToken)
AuthLogin(adminData, accessToken, refreshToken) ==
    /\ ctx' = [ctx EXCEPT !.admin = adminData,
                          !.last = [op |-> "login", admin |-> adminData,
                                    access |-> accessToken,
                                    refresh |-> refreshToken,
                                    before |-> storage]]
    /\ storage' = [admin |-> Stringify(adminData),
                   access_token |-> accessToken,
                   refresh_token |-> refreshToken]

\* A page calls the api instance; the request interceptor attaches the
\* stored access token. One request is in flight at a time.
ClientSend(r) ==
    /\ creq.pos = "idle"
    /\ ccalls < MaxClientCalls
    /\ ccalls' = ccalls + 1
    /\ creq' = [NoClientRequest EXCEPT !.pos = "sent", !.kind = r.kind,
                                       !.email = r.email, !.password = r.password,
                                       !.auth = storage.access_token, !.sends = 1]
    /\ UNCHANGED <<storage, location, cres, ctx, tab>>
    /\ UNCHANGED <<admins>>
    /\ UNCHANGED authVars
    /\ UNCHANGED eventVars

\* The status the server answers request r with: AuthService.login for a
\* login; for the others JwtAuthGuard, then, for DELETE, verifyPassword
\* and EventsService.delete.
ServerStatus(r) ==
    IF r.kind = "login"
    THEN IF \A a \in AdminByEmail(r.email) : ~Compare(r.password, a.password)
         THEN 401
         ELSE IF \E a \in AdminByEmail(r.email) :
                   CreateFails(RefreshTokenAt(a.id, a.email, now))
         THEN 500
         ELSE 200
    ELSE IF ~SessionAccepts(r.auth, now) THEN 401
    ELSE IF r.kind = "get" THEN 200
    ELSE IF ~VerifyPassword(r.auth.sub, r.password) THEN 401
    ELSE IF FindEvent(ClientEventId) = {} THEN 404
    ELSE IF \E e \in FindEvent(ClientEventId) : ~IsOwner(e, r.auth.sub) THEN 403
    ELSE 200

\* What handling request r changes on the server.
ServerHandles(r) ==
    IF r.kind = "login" /\ ServerStatus(r) # 401
    THEN /\ \E a \in AdminByEmail(r.email) : LoginIssue(a, r.password)
         /\ UNCHANGED events
    ELSE /\ events' = IF r.kind = "delete" /\ ServerStatus(r) = 200
                      THEN events \ FindEvent(ClientEventId)
                      ELSE events
         /\ UNCHANGED <<resp, ledger, nextTokId, issued>>

\* The answer to the request arrives. Response interceptor up to the call
\* of /auth/refresh: on a 401 of a request not yet retried it marks the
\* request and, with no stored refresh token, clears the storage and goes
\* to the login page, else posts the stored refresh token. Every other
\* answer goes to the caller; Login.onSubmit hands a successful login to
\* AuthContext.login, which stores admin and tokens.
ClientReceive ==
    /\ creq.pos = "sent"
    /\ ServerHandles(creq)
    /\ LET status == ServerStatus(creq)
           result == ClientResult(creq.kind, creq.email, creq.password, status,
                                  creq.sends, creq.refreshes)
       IN  IF ShouldRefresh(status, creq.retry)
           THEN IF storage.refresh_token = NoToken
                THEN /\ storage' = NoStorage
                     /\ location' = "/admin/login"
                     /\ cres' = result
                     /\ creq' = NoClientRequest
                     /\ UNCHANGED ctx
                ELSE /\ creq' = [creq EXCEPT !.pos = "refreshing", !.retry = TRUE,
                                             !.refreshToken = storage.refresh_token,
                                             !.refreshes = @ + 1]
                     /\ UNCHANGED <<storage, location, cres, ctx>>
           ELSE /\ cres' = result
                /\ creq' = NoClientRequest
                /\ IF creq.kind = "login" /\ status = 200
                   THEN /\ \E pr \in resp'.pair :
                             AuthLogin(pr.admin.id, pr.accessToken, pr.refreshToken)
                        /\ location' = "/admin/dashboard"
                   ELSE UNCHANGED <<storage, location, ctx>>
    /\ UNCHANGED <<now, admins, pc, loc, calls, deleted, loggedOut, okCount,
                   nextEventId, epc, ereq, eresp, ecalls, ccalls, tab>>

\* AuthService.refreshTokens(token) run from start to end with no other
\* request in between: verify, lookup, expiry check, delete, generateTokens.
RefreshAtOnce(token) ==
    LET stored == FindByToken(token)
        remaining == ledger \ stored
        access == AccessTokenAt(token.sub, token.email, now)
        refresh == RefreshTokenAt(token.sub, token.email, now)
        rec == NewRecord(refresh, token.sub, now)
    IN  IF \/ ~JwtVerify(token, now)
           \/ stored = {}
           \/ \E r \in stored : LedgerExpired(r, now)
        THEN /\ resp' = Response("refresh", token, 401, {}, FALSE, {},
                                 token \in loggedOut)
             /\ UNCHANGED <<ledger, nextTokId, issued, deleted, okCount>>
        ELSE IF \E r \in remaining : r.token = refresh
        THEN /\ ledger' = remaining
             /\ deleted' = deleted \cup {token}
             /\ resp' = Response("refresh", token, 401, {}, TRUE, {},
                                 token \in loggedOut)
             /\ UNCHANGED <<nextTokId, issued, okCount>>
        ELSE /\ ledger' = remaining \cup {rec}
             /\ deleted' = deleted \cup {token}
             /\ nextTokId' = nextTokId + 1
             /\ issued' = issued \cup {refresh}
             /\ okCount' = Bump(okCount, token)
             /\ resp' = Response("refresh", token, 200,
                                 {[accessToken |-> access, refreshToken |-> refresh]},
                                 TRUE, {rec}, token \in loggedOut)

\* The answer of /auth/refresh arrives. Response interceptor after the
\* await: on success it stores the new pair and sends the original request
\* again with the new access token; on failure it clears the storage,
\* goes to the login page and rejects.
ClientRefreshReceive ==
    /\ creq.pos = "refreshing"
    /\ RefreshAtOnce(creq.refreshToken)
    /\ IF resp'.status = 200
       THEN /\ \E pr \in resp'.pair :
                 /\ storage' = [storage EXCEPT !.access_token = pr.accessToken,
                                               !.refresh_token = pr.refreshToken]
                 /\ creq' = [creq EXCEPT !.pos = "sent", !.auth = pr.accessToken,
                                         !.sends = @ + 1]
            /\ UNCHANGED <<location, cres>>
       ELSE /\ storage' = NoStorage
            /\ location' = "/admin/login"
            /\ cres' = ClientResult(creq.kind, creq.email, creq.password,
                                    resp'.status, creq.sends, creq.refreshes)
            /\ creq' = NoClientRequest
    /\ UNCHANGED <<now, admins, pc, loc, calls, loggedOut,
                   events, nextEventId, epc, ereq, eresp, ecalls, ccalls, ctx,
                   tab>>

NextClient ==
    \/ Tick
    \/ \E r \in ClientRequests : ClientSend(r)
    \/ ClientReceive
    \/ ClientRefreshReceive

\* An answer that is on its way arrives, and the interceptor's
\* continuation runs.
SpecClient ==
    /\ Init
    /\ [][NextClient]_vars
    /\ WF_vars(ClientReceive)
    /\ WF_vars(ClientRefreshReceive)

\* The access token on the request in flight is one the Session Validator
\* accepts now.
AccessGood ==
    /\ creq.auth.kind = "access"
    /\ now \div TicksPerSec < creq.auth.exp
    /\ \E a \in admins : a.id = creq.auth.sub

\* The request in flight is a DELETE with a good access token and a
\* password that is not the caller's.
WrongStepUp ==
    /\ creq.kind = "delete"
    /\ AccessGood
    /\ \A a \in admins : a.id = creq.auth.sub => a.password # Hash(creq.password)

\* The request in flight is a login whose credentials match no identity.
WrongLogin ==
    /\ creq.kind = "login"
    /\ \A a \in admins : a.email = creq.email => a.password # Hash(creq.password)

\* C13 - Only a 401 caused by the access token starts the silent refresh:
\* when the answer to a DELETE with a wrong step-up password, or to a login
\* with wrong credentials, arrives, the interceptor does not call
\* /auth/refresh and the stored tokens stay as they are.
C13_OnlyAccessFailureRefreshes ==
    [][(creq.pos = "sent" /\ creq' # creq /\ (WrongStepUp \/ WrongLogin))
         => (creq'.pos # "refreshing" /\ storage' = storage)]_vars

\* C14 - For each original request the interceptor calls /auth/refresh at
\* most once and sends the request at most twice; a retried request that
\* is answered 401 again goes to the caller with no further refresh and
\* the storage untouched; when the refresh call fails, or no refresh token
\* is stored, the storage is cleared, the browser goes to /admin/login and
\* the request is not sent again; and every request comes to an end.
C14_OneRefreshOneRetry ==
    /\ [][/\ creq'.refreshes <= 1
          /\ creq'.sends <= 2
          /\ (creq.pos = "sent" /\ creq.retry /\ creq' # creq)
               => (/\ creq'.pos = "idle"
                   /\ cres'.sends = 2
                   /\ cres'.refreshes = 1
                   /\ cres'.status = 401 => storage' = storage)
          /\ (creq.pos = "refreshing" /\ creq' # creq /\ resp'.status # 200)
               => (/\ storage' = NoStorage
                   /\ location' = "/admin/login"
                   /\ creq'.pos = "idle"
                   /\ cres'.sends = 1)
          /\ (/\ creq.pos = "sent"
              /\ ~creq.retry
              /\ storage.refresh_token = NoToken
              /\ (creq'.pos = "refreshing"
                    \/ (creq'.pos = "idle" /\ cres'.status = 401)))
               => (/\ creq'.pos = "idle"
                   /\ storage' = NoStorage
                   /\ location' = "/admin/login"
                   /\ cres'.sends = 1
                   /\ cres'.refreshes = 0)]_vars
    /\ (creq.pos # "idle") ~> (creq.pos = "idle")

\* A request was answered 401, refreshed once, sent again, answered 401
\* again and handed to its caller, with the rotated tokens still stored.
C14_Witness ==
    /\ creq.pos = "idle"
    /\ cres.status = 401
    /\ cres.sends = 2
    /\ cres.refreshes = 1
    /\ storage.refresh_token # NoToken

\* ------------------------------------------------------------ listing
\* EventsService.findAll under SpecList: a listing with any filter, and
\* creations of other requests before, between and after its two queries.

\* A query parameter the request does not carry.
Undefined == 0
DefaultPage == 1
DefaultLimit == 10

Pages == {Undefined, 1, 2}
Limits == {Undefined, 1, 2}
Statuses == {"", "COMPLETED"}
SortOrders == {"", "asc"}
\* Search terms, letter by letter; the empty term is no filter.
Searches == {<<>>, <<"1">>, <<"A">>}

\* The letters of the stored texts.
Chars(text) ==
    CASE text = "n1" -> <<"n", "1">>
      [] text = "n2" -> <<"n", "2">>
      [] text = "hall" -> <<"h", "a", "l", "l">>
      [] OTHER -> <<>>

LowerChar(c) ==
    CASE c = "A" -> "a"
      [] c = "N" -> "n"
      [] c = "H" -> "h"
      [] c = "L" -> "l"
      [] OTHER -> c

Lower(letters) == [i \in 1..Len(letters) |-> LowerChar(letters[i])]

\* {contains: search, mode: 'insensitive'}
Contains(text, search) ==
    \E i \in 0..(Len(text) - Len(search)) :
        SubSeq(Lower(text), i + 1, i + Len(search)) = Lower(search)

\* The stored event under test when listing starts: completed, of admin 2.
SeedEvent == [id |-> 1, createdById |-> 2, name |-> "n2", location |-> "hall",
              status |-> "COMPLETED"]

NoListing == [op |-> "none", page |-> Undefined, limit |-> Undefined,
              status |-> "", search |-> <<>>, sortOrder |-> "",
              gotData |-> FALSE, gotTotal |-> FALSE, data |-> <<>>, total |-> 0]

PageOf(r) == IF r.page = Undefined THEN DefaultPage ELSE r.page
LimitOf(r) == IF r.limit = Undefined THEN DefaultLimit ELSE r.limit
SortOrderOf(r) == IF r.sortOrder = "" THEN "desc" ELSE r.sortOrder

\* The where clause: status when given, and name or location containing
\* the search term when given.
Where(e, r) ==
    /\ r.status # "" => e.status = r.status
    /\ r.search # <<>> =>
          \/ Contains(Chars(e.name), r.search)
          \/ Contains(Chars(e.location), r.search)

\* orderBy: {createdAt: sortOrder}; ids are handed out in creation order.
RECURSIVE OrderBy(_, _)
OrderBy(S, sortOrder) ==
    IF S = {} THEN <<>>
    ELSE LET first == CHOOSE e \in S : \A f \in S :
                          IF sortOrder = "asc" THEN e.id <= f.id ELSE e.id >= f.id
         IN  <<first>> \o OrderBy(S \ {first}, sortOrder)

\* skip, take
SkipTake(rows, skip, take) ==
    SubSeq(rows, skip + 1, IF skip + take < Len(rows) THEN skip + take ELSE Len(rows))

\* prisma.event.findMany({where, skip, take: limit, orderBy})
FindMany(r) ==
    SkipTake(OrderBy({e \in events : Where(e, r)}, SortOrderOf(r)),
             (PageOf(r) - 1) * LimitOf(r), LimitOf(r))

\* prisma.event.count({where})
Count(r) == Cardinality({e \in events : Where(e, r)})

TotalPagesFloor(total, limit) == total \div limit

\* Math.ceil(total / limit), limit >= 1
TotalPages(total, limit) == (total + limit - 1) \div limit

\* findAll(filterDto) has read its filter and issued both queries.
Listing(page, limit, status, search, sortOrder) ==
    [NoListing EXCEPT !.op = "findAll", !.page = page, !.limit = limit,
                      !.status = status, !.search = search,
                      !.sortOrder = sortOrder]

\* One stored event, and a listing with any filter under way.
InitList ==
    /\ now = 0
    /\ admins = Registered
    /\ ledger = {}
    /\ nextTokId = 1
    /\ pc = [p \in Procs |-> "idle"]
    /\ loc = [p \in Procs |-> NoLocals]
    /\ resp = Response("none", NoToken, 0, {}, FALSE, {}, FALSE)
    /\ calls = 0
    /\ issued = {}
    /\ deleted = {}
    /\ loggedOut = {}
    /\ okCount = <<>>
    /\ events = {SeedEvent}
    /\ nextEventId = 2
    /\ epc = [p \in Procs |-> IF p = 1 THEN "listing" ELSE "idle"]
    /\ \E page \in Pages, limit \in Limits, status \in Statuses,
          search \in Searches, sortOrder \in SortOrders :
          ereq = [p \in Procs |-> IF p = 1
                                  THEN Listing(page, limit, status, search, sortOrder)
                                  ELSE NoListing]
    /\ eresp = EventResponse("none", 0, 0, 0, {}, "")
    /\ ecalls = 0
    /\ storage = NoStorage
    /\ location = "/admin/login"
    /\ creq = NoClientRequest
    /\ cres = ClientResult("none", "", "", 0, 0, 0)
    /\ ccalls = 0
    /\ ctx = Anonymous
    /\ tab = NoTab

ListUnchanged ==
    /\ UNCHANGED <<admins, events, nextEventId, ecalls>>
    /\ UNCHANGED authVars
    /\ UNCHANGED clientVars

\* The findMany query of Promise.all runs.
FindAllMany ==
    /\ epc[1] = "listing"
    /\ ~ereq[1].gotData
    /\ ereq' = [ereq EXCEPT ![1].gotData = TRUE, ![1].data = FindMany(ereq[1])]
    /\ UNCHANGED <<epc, eresp>>
    /\ ListUnchanged

\* The count query of Promise.all runs.
FindAllCount ==
    /\ epc[1] = "listing"
    /\ ~ereq[1].gotTotal
    /\ ereq' = [ereq EXCEPT ![1].gotTotal = TRUE, ![1].total = Count(ereq[1])]
    /\ UNCHANGED <<epc, eresp>>
    /\ ListUnchanged

\* Both queries have answered: {data, meta} is returned.
FindAllReturn ==
    /\ epc[1] = "listing"
    /\ ereq[1].gotData
    /\ ereq[1].gotTotal
    /\ eresp' = [op |-> "findAll", status |-> 200, request |-> ereq[1],
                 data |-> ereq[1].data,
                 meta |-> [total |-> ereq[1].total,
                           page |-> PageOf(ereq[1]),
                           limit |-> LimitOf(ereq[1]),
                           totalPages |-> TotalPages(ereq[1].total,
                                                     LimitOf(ereq[1]))]]
    /\ epc' = [epc EXCEPT ![1] = "idle"]
    /\ ereq' = [ereq EXCEPT ![1] = NoListing]
    /\ ListUnchanged

NextList ==
    \/ FindAllMany
    \/ FindAllCount
    \/ FindAllReturn
    \/ \E bearer \in Bearers, name \in Names : CreateEvent(bearer, name)

SpecList == InitList /\ [][NextList]_vars

\* The events that satisfy the filter of listing r at this moment.
Matching(r) == {e \in events : Where(e, r)}

\* The i-th matching event in the requested creation order: exactly i - 1
\* matching events come before it.
Nth(r, i) ==
    CHOOSE e \in Matching(r) :
        Cardinality({f \in Matching(r) :
                        IF r.sortOrder = "asc" THEN f.id < e.id ELSE f.id > e.id}) = i - 1

\* The rows the requested page holds, given n matching events.
RowsOnPage(r, n) ==
    LET offset == (PageOf(r) - 1) * LimitOf(r)
    IN  IF n <= offset THEN 0
        ELSE IF n - offset < LimitOf(r) THEN n - offset ELSE LimitOf(r)

\* C24: findAll counts the events matching the filter, returns the matching
\* events from offset (page - 1) * limit on, at most limit of them, reports
\* page, limit (1 and 10 when not given) and totalPages = the least number
\* of pages of limit rows that hold total rows, and changes no event.
C24_FindAllPaginates ==
    [][/\ (epc[1] = "listing" /\ ~ereq[1].gotTotal /\ ereq'[1].gotTotal) =>
              /\ ereq'[1].total = Cardinality(Matching(ereq[1]))
              /\ events' = events
       /\ (epc[1] = "listing" /\ ~ereq[1].gotData /\ ereq'[1].gotData) =>
              /\ Len(ereq'[1].data) = RowsOnPage(ereq[1], Cardinality(Matching(ereq[1])))
              /\ Len(ereq'[1].data) <= LimitOf(ereq[1])
              /\ \A i \in 1..Len(ereq'[1].data) :
                    ereq'[1].data[i] =
                        Nth(ereq[1], (PageOf(ereq[1]) - 1) * LimitOf(ereq[1]) + i)
              /\ events' = events
       /\ (epc[1] = "listing" /\ epc'[1] = "idle") =>
              /\ eresp'.data = ereq[1].data
              /\ eresp'.meta.total = ereq[1].total
              /\ eresp'.meta.page = (IF ereq[1].page = Undefined THEN 1 ELSE ereq[1].page)
              /\ eresp'.meta.limit = (IF ereq[1].limit = Undefined THEN 10 ELSE ereq[1].limit)
              /\ eresp'.meta.totalPages * eresp'.meta.limit >= eresp'.meta.total
              /\ (eresp'.meta.totalPages - 1) * eresp'.meta.limit < eresp'.meta.total
              /\ eresp'.meta.totalPages >= 0
              /\ events' = events
      ]_vars

\* A second page of one row was returned out of two matching events, and a
\* listing with limit 2 reported one page for one matching event.
C24_Witness ==
    /\ eresp.op = "findAll"
    /\ eresp.request.page = 2
    /\ eresp.request.limit = 1
    /\ eresp.meta.total = 2
    /\ eresp.meta.totalPages = 2
    /\ Len(eresp.data) = 1
    /\ eresp.request.search # <<>>

\* ------------------------------------------------------------ uploads
\* UploadsController.uploadFile and UploadsService.validateFile under
\* SpecUpload: the handler is called with any file, or with none.
AllowedMimeTypes == {"image/jpeg", "image/jpg", "image/png", "image/webp"}
MaxSize == 5 * 1024 * 1024

MimeTypes == AllowedMimeTypes \cup {"image/gif", "application/pdf", "IMAGE/PNG", ""}
Sizes == {0, 1, MaxSize - 1, MaxSize, MaxSize + 1, 2 * MaxSize}
Filenames == {"file-1.png", "file-2.bin"}

\* @UploadedFile() file is undefined.
NoFile == [present |-> FALSE, filename |-> "", mimetype |-> "", size |-> 0]

Files ==
    {[present |-> TRUE, filename |-> f, mimetype |-> m, size |-> z] :
        f \in Filenames, m \in MimeTypes, z \in Sizes}

InvalidType == "Invalid file type. Only JPEG, PNG, and WEBP images are allowed."
TooLarge == "File size exceeds 5MB limit."

\* What validateFile throws; "" when it returns.
ValidateFileBelowLimit(file) ==
    IF file.mimetype \notin AllowedMimeTypes THEN InvalidType
    ELSE IF file.size >= MaxSize THEN TooLarge
    ELSE ""

ValidateFile(file) ==
    IF file.mimetype \notin AllowedMimeTypes THEN InvalidType
    ELSE IF file.size > MaxSize THEN TooLarge
    ELSE ""

\* `${appUrl}/uploads/${filename}`
GetFileUrl(filename) == <<"APP_URL", "/uploads/", filename>>

\* The answer of uploadFile with the service calls it made, in order.
UploadOutcome(file) ==
    IF ~file.present
    THEN [status |-> 400, message |-> "No file uploaded", calls |-> <<>>,
          url |-> <<>>]
    ELSE IF ValidateFile(file) # ""
    THEN [status |-> 400, message |-> ValidateFile(file),
          calls |-> <<"validateFile">>, url |-> <<>>]
    ELSE [status |-> 201, message |-> "",
          calls |-> <<"validateFile", "getFileUrl">>,
          url |-> GetFileUrl(file.filename)]

\* The handler is about to run with any file or none.
InitUpload ==
    /\ now = 0
    /\ admins = Registered
    /\ ledger = {}
    /\ nextTokId = 1
    /\ pc = [p \in Procs |-> "idle"]
    /\ loc = [p \in Procs |-> NoLocals]
    /\ resp = Response("none", NoToken, 0, {}, FALSE, {}, FALSE)
    /\ calls = 0
    /\ issued = {}
    /\ deleted = {}
    /\ loggedOut = {}
    /\ okCount = <<>>
    /\ events = {}
    /\ nextEventId = 1
    /\ epc = [p \in Procs |-> IF p = 1 THEN "upload" ELSE "idle"]
    /\ \E file \in Files \cup {NoFile} :
          ereq = [p \in Procs |-> IF p = 1 THEN file ELSE NoFile]
    /\ eresp = EventResponse("none", 0, 0, 0, {}, "")
    /\ ecalls = 0
    /\ storage = NoStorage
    /\ location = "/admin/login"
    /\ creq = NoClientRequest
    /\ cres = ClientResult("none", "", "", 0, 0, 0)
    /\ ccalls = 0
    /\ ctx = Anonymous
    /\ tab = NoTab

\* UploadsController.uploadFile
UploadFile ==
    /\ epc[1] = "upload"
    /\ eresp' = [op |-> "upload", file |-> ereq[1],
                 status |-> UploadOutcome(ereq[1]).status,
                 message |-> UploadOutcome(ereq[1]).message,
                 calls |-> UploadOutcome(ereq[1]).calls,
                 url |-> UploadOutcome(ereq[1]).url]
    /\ epc' = [epc EXCEPT ![1] = "idle"]
    /\ ereq' = [ereq EXCEPT ![1] = NoFile]
    /\ UNCHANGED <<admins, events, nextEventId, ecalls>>
    /\ UNCHANGED authVars
    /\ UNCHANGED clientVars

NextUpload == UploadFile

SpecUpload == InitUpload /\ [][NextUpload]_vars

\* C23: uploadFile answers a missing file with BadRequest and calls no
\* validation; a file is accepted exactly when its mimetype is image/jpeg,
\* image/jpg, image/png or image/webp and its size is at most 5242880 bytes;
\* a file failing both checks gets the type error; the URL is built only
\* after validation has passed.
C23_UploadValidation ==
    eresp.op = "upload" =>
        /\ ~eresp.file.present =>
              /\ eresp.status = 400
              /\ eresp.message = "No file uploaded"
              /\ eresp.calls = <<>>
        /\ eresp.file.present =>
              /\ eresp.status = 201 <=>
                    /\ eresp.file.mimetype \in
                          {"image/jpeg", "image/jpg", "image/png", "image/webp"}
                    /\ eresp.file.size <= 5242880
              /\ eresp.status \in {201, 400}
              /\ (eresp.file.mimetype \notin
                      {"image/jpeg", "image/jpg", "image/png", "image/webp"}) =>
                    eresp.message = InvalidType
              /\ eresp.calls # <<>>
              /\ eresp.calls[1] = "validateFile"
              /\ \A i \in 1..Len(eresp.calls) :
                    eresp.calls[i] = "getFileUrl" => i > 1 /\ eresp.status = 201
              /\ eresp.url # <<>> <=> eresp.status = 201

\* A file of exactly 5MB was accepted, and its URL was built.
C23_Witness ==
    /\ eresp.op = "upload"
    /\ eresp.file.present
    /\ eresp.file.size = 5242880
    /\ eresp.status = 201
    /\ eresp.calls = <<"validateFile", "getFileUrl">>

\* ------------------------------------------------------------ AuthContext
\* The AuthProvider under SpecAuthContext: it mounts over any stored
\* values, and its children call login and logout in any order.

\* Stored admin values that JSON.parse rejects / reads as null.
Corrupted == <<"{", "x">>
JsonNull == <<"null">>

\* Whether JSON.parse(text) returns.
Parses(text) ==
    \/ text = <<"null">>
    \/ Len(text) = 3 /\ text[1] = "{" /\ text[3] = "}"

\* JSON.parse(text) for a text that parses.
JsonParse(text) == IF text = <<"null">> THEN Null ELSE text[2]

ContextAdmins == {a.id : a \in Registered}
ContextAccessTokens == {AccessTokenAt(a.id, a.email, 0) : a \in Registered}
ContextRefreshTokens == {RefreshTokenAt(a.id, a.email, 0) : a \in Registered}

\* What localStorage can hold when the page loads.
StoredStates ==
    {[admin |-> d, access_token |-> a, refresh_token |-> r] :
        d \in {NoItem, Corrupted, JsonNull} \cup {Stringify(i) : i \in ContextAdmins},
        a \in {NoToken, AccessTokenAt(1, "a@x.com", 0)},
        r \in {NoToken, RefreshTokenAt(1, "a@x.com", 0)}}

\* isAuthenticated: !!admin
IsAuthenticated == ctx.admin # Null

ShouldRestoreAdminOnly(storedAdmin, accessToken) == storedAdmin # NoItem

\* storedAdmin && accessToken
ShouldRestore(storedAdmin, accessToken) ==
    storedAdmin # NoItem /\ accessToken # NoToken

\* The page loads: the provider has rendered, its effect has not run.
InitContext ==
    /\ now = 0
    /\ admins = Registered
    /\ ledger = {}
    /\ nextTokId = 1
    /\ pc = [p \in Procs |-> "idle"]
    /\ loc = [p \in Procs |-> NoLocals]
    /\ resp = Response("none", NoToken, 0, {}, FALSE, {}, FALSE)
    /\ calls = 0
    /\ issued = {}
    /\ deleted = {}
    /\ loggedOut = {}
    /\ okCount = <<>>
    /\ events = {}
    /\ nextEventId = 1
    /\ epc = [p \in Procs |-> "idle"]
    /\ ereq = [p \in Procs |-> NoRequest]
    /\ eresp = EventResponse("none", 0, 0, 0, {}, "")
    /\ ecalls = 0
    /\ storage \in StoredStates
    /\ location = "/admin/login"
    /\ creq = NoClientRequest
    /\ cres = ClientResult("none", "", "", 0, 0, 0)
    /\ ccalls = 0
    /\ ctx = Unmounted
    /\ tab = NoTab

ContextUnchanged ==
    /\ UNCHANGED <<location, creq, cres, ccalls, tab>>
    /\ UNCHANGED <<admins>>
    /\ UNCHANGED authVars
    /\ UNCHANGED eventVars

\* The effect of the AuthProvider runs, once.
AuthMount ==
    /\ ctx.loading
    /\ IF ShouldRestore(storage.admin, storage.access_token)
       THEN IF Parses(storage.admin)
            THEN /\ ctx' = [admin |-> JsonParse(storage.admin), loading |-> FALSE,
                            last |-> [NoCall EXCEPT !.op = "mount",
                                                    !.before = storage]]
                 /\ UNCHANGED storage
            ELSE /\ storage' = [storage EXCEPT !.admin = NoItem,
                                               !.access_token = NoToken,
                                               !.refresh_token = NoToken]
                 /\ ctx' = [ctx EXCEPT !.loading = FALSE,
                                       !.last = [NoCall EXCEPT !.op = "mount",
                                                               !.before = storage]]
       ELSE /\ ctx' = [ctx EXCEPT !.loading = FALSE,
                                  !.last = [NoCall EXCEPT !.op = "mount",
                                                          !.before = storage]]
            /\ UNCHANGED storage
    /\ ContextUnchanged

\* A child calls login(adminData, accessToken, refreshToken).
ContextLogin(adminData, accessToken, refreshToken) ==
    /\ AuthLogin(adminData, accessToken, refreshToken)
    /\ ContextUnchanged

\* A logout that leaves the refresh token in place.
AuthLogoutKeepingRefresh ==
    /\ ctx' = [ctx EXCEPT !.admin = Null,
                          !.last = [NoCall EXCEPT !.op = "logout",
                                                  !.before = storage]]
    /\ storage' = [storage EXCEPT !.admin = NoItem, !.access_token = NoToken]

\* AuthProvider.logout()
AuthLogout ==
    /\ ctx' = [ctx EXCEPT !.admin = Null,
                          !.last = [NoCall EXCEPT !.op = "logout",
                                                  !.before = storage]]
    /\ storage' = [storage EXCEPT !.admin = NoItem, !.access_token = NoToken,
                                  !.refresh_token = NoToken]

\* A child calls logout().
ContextLogout ==
    /\ AuthLogout
    /\ ContextUnchanged

NextContext ==
    \/ AuthMount
    \/ \E adminData \in ContextAdmins, accessToken \in ContextAccessTokens,
          refreshToken \in ContextRefreshTokens :
          ContextLogin(adminData, accessToken, refreshToken)
    \/ ContextLogout

SpecAuthContext == InitContext /\ [][NextContext]_vars

\* C21: isAuthenticated is true exactly when admin is non-null; after a
\* login the three keys hold the stringified admin and the two tokens of
\* that login, whatever they held before; after a logout the three keys
\* are absent, admin is null and isAuthenticated is false, whatever was
\* stored before.
C21_LoginLogoutContract ==
    /\ IsAuthenticated <=> ctx.admin \in {1, 2}
    /\ ctx.last.op = "login" =>
          /\ storage.admin = <<"{", ctx.last.admin, "}">>
          /\ storage.access_token = ctx.last.access
          /\ storage.refresh_token = ctx.last.refresh
          /\ ctx.admin = ctx.last.admin
          /\ IsAuthenticated
    /\ ctx.last.op = "logout" =>
          /\ storage.admin = <<>>
          /\ storage.access_token = NoToken
          /\ storage.refresh_token = NoToken
          /\ ctx.admin = 0
          /\ ~IsAuthenticated

\* A login replaced the admin and both tokens an earlier login had stored.
C21_Witness ==
    /\ ctx.last.op = "login"
    /\ ctx.last.before.admin \in {<<"{", 1, "}">>, <<"{", 2, "}">>}
    /\ ctx.last.before.admin # storage.admin
    /\ ctx.last.before.access_token \notin {NoToken, storage.access_token}
    /\ ctx.last.before.refresh_token \notin {NoToken, storage.refresh_token}

\* A stored admin value that is present and is no JSON text.
Unreadable(text) ==
    /\ text # <<>>
    /\ text # <<"null">>
    /\ text \notin {<<"{", 1, "}">>, <<"{", 2, "}">>}

\* What holds of the mount whether or not corrupted data is cleaned: a
\* session is restored only from both keys and a readable admin, and a
\* missing key or an unreadable admin ends in admin null, loading false.
MountRestoresOnlyReadable ==
    /\ ~ctx.loading
    /\ ctx.admin # 0 =>
          /\ ctx.last.before.admin # <<>>
          /\ ctx.last.before.access_token # NoToken
          /\ ~Unreadable(ctx.last.before.admin)
    /\ (\/ ctx.last.before.admin = <<>>
        \/ ctx.last.before.access_token = NoToken
        \/ Unreadable(ctx.last.before.admin)) => ctx.admin = 0 /\ ~IsAuthenticated

\* C22 as stated: on mount the session is restored only when admin and
\* access_token are stored and admin parses, otherwise the context ends
\* with admin null and loading false; whenever the stored admin is
\* corrupted, the three keys are removed.
C22_CorruptedAlwaysCleared ==
    ctx.last.op = "mount" =>
        /\ MountRestoresOnlyReadable
        /\ Unreadable(ctx.last.before.admin) => storage = NoStorage

\* C22, amended: as stated, except that the three keys are removed when
\* the stored admin is corrupted and access_token is stored too; with
\* access_token missing the stored values stay as they were.
C22_CorruptedClearedWithToken ==
    ctx.last.op = "mount" =>
        /\ MountRestoresOnlyReadable
        /\ (Unreadable(ctx.last.before.admin)
              /\ ctx.last.before.access_token # NoToken) => storage = NoStorage
        /\ (Unreadable(ctx.last.before.admin)
              /\ ctx.last.before.access_token = NoToken) =>
              storage = ctx.last.before

\* The provider mounted over a corrupted admin with both tokens stored
\* and removed all three keys.
C22_Witness ==
    /\ ctx.last.op = "mount"
    /\ Unreadable(ctx.last.before.admin)
    /\ ctx.last.before.access_token # NoToken
    /\ ctx.last.before.refresh_token # NoToken
    /\ storage = NoStorage
    /\ ctx.admin = 0

\* ------------------------------------------------------------ the page
\* A logged-in page under SpecTabs: two requests can be in flight at the
\* same time, each with its own run of the response interceptor, and the
\* account menu can call handleLogout. The server handles /auth/refresh
\* and /auth/logout when they arrive; their answers arrive later.

\* The pair the login at time 0 handed to the page.
TabAccess == AccessTokenAt(1, "a@x.com", 0)
TabRefresh == RefreshTokenAt(1, "a@x.com", 0)

\* The first identity has logged in through the page at time 0.
InitTabs ==
    /\ now = 0
    /\ admins = Registered
    /\ ledger = {[id |-> 1, token |-> TabRefresh, adminId |-> 1,
                  expiresAt |-> ExpiresAt(0), createdAt |-> 0]}
    /\ nextTokId = 2
    /\ pc = [p \in Procs |-> "idle"]
    /\ loc = [p \in Procs |-> NoLocals]
    /\ resp = Response("none", NoToken, 0, {}, FALSE, {}, FALSE)
    /\ calls = 0
    /\ issued = {TabRefresh}
    /\ deleted = {}
    /\ loggedOut = {}
    /\ okCount = <<>>
    /\ events = {}
    /\ nextEventId = 1
    /\ epc = [p \in Procs |-> "idle"]
    /\ ereq = [p \in Procs |-> NoRequest]
    /\ eresp = EventResponse("none", 0, 0, 0, {}, "")
    /\ ecalls = 0
    /\ storage = [admin |-> Stringify(1), access_token |-> TabAccess,
                  refresh_token |-> TabRefresh]
    /\ location = "/admin/dashboard"
    /\ creq = NoClientRequest
    /\ cres = ClientResult("none", "", "", 0, 0, 0)
    /\ ccalls = 0
    /\ ctx = [admin |-> 1, loading |-> FALSE,
              last |-> [op |-> "login", admin |-> 1, access |-> TabAccess,
                        refresh |-> TabRefresh, before |-> NoStorage]]
    /\ tab = [NoTab EXCEPT !.session = {TabRefresh}]

TabServerUnchanged ==
    /\ UNCHANGED <<now, admins, ledger, nextTokId, pc, loc, resp, calls,
                   issued, deleted, loggedOut, okCount>>
    /\ UNCHANGED eventVars

\* A page sends GET /events/admin through the api instance; the request
\* interceptor attaches the stored access token.
TabSend(s) ==
    /\ tab.req[s].pos = "idle"
    /\ tab' = [tab EXCEPT !.req[s] =
                  [NoTabRequest EXCEPT !.pos = "sent",
                                       !.auth = storage.access_token,
                                       !.sends = 1]]
    /\ UNCHANGED <<storage, location, creq, cres, ccalls, ctx>>
    /\ TabServerUnchanged

\* The answer to request s arrives: response interceptor up to the call
\* of /auth/refresh.
TabReceive(s) ==
    /\ tab.req[s].pos = "sent"
    /\ LET status == IF SessionAccepts(tab.req[s].auth, now) THEN 200 ELSE 401
       IN  IF ShouldRefresh(status, tab.req[s].retry)
           THEN IF storage.refresh_token = NoToken
                THEN /\ storage' = NoStorage
                     /\ location' = "/admin/login"
                     /\ tab' = [tab EXCEPT !.req[s].pos = "done",
                                           !.req[s].retry = TRUE,
                                           !.req[s].status = status]
                ELSE /\ tab' = [tab EXCEPT
                                  !.req[s].pos = "refreshing",
                                  !.req[s].retry = TRUE,
                                  !.req[s].refreshToken = storage.refresh_token,
                                  !.req[s].valid =
                                      \E r \in FindByToken(storage.refresh_token) :
                                          /\ ~LedgerExpired(r, now)
                                          /\ JwtVerify(r.token, now)]
                     /\ UNCHANGED <<storage, location>>
           ELSE /\ tab' = [tab EXCEPT !.req[s].pos = "done",
                                      !.req[s].status = status]
                /\ UNCHANGED <<storage, location>>
    /\ UNCHANGED <<creq, cres, ccalls, ctx>>
    /\ TabServerUnchanged

\* The server handles the /auth/refresh call of request s.
TabRefreshServer(s) ==
    /\ tab.req[s].pos = "refreshing"
    /\ RefreshAtOnce(tab.req[s].refreshToken)
    /\ tab' = [tab EXCEPT
                  !.req[s].pos = "answered",
                  !.req[s].answer = [status |-> resp'.status, pair |-> resp'.pair],
                  !.session = IF tab.req[s].refreshToken \in tab.session
                              THEN @ \cup {pr.refreshToken : pr \in resp'.pair}
                              ELSE @]
    /\ UNCHANGED <<now, admins, pc, loc, calls, loggedOut>>
    /\ UNCHANGED eventVars
    /\ UNCHANGED <<storage, location, creq, cres, ccalls, ctx>>

\* The answer of /auth/refresh arrives: response interceptor after the
\* await.
TabRefreshReceive(s) ==
    /\ tab.req[s].pos = "answered"
    /\ IF tab.req[s].answer.status = 200
       THEN /\ \E pr \in tab.req[s].answer.pair :
                 /\ storage' = [storage EXCEPT !.access_token = pr.accessToken,
                                               !.refresh_token = pr.refreshToken]
                 /\ tab' = [tab EXCEPT !.req[s].pos = "sent",
                                       !.req[s].auth = pr.accessToken,
                                       !.req[s].sends = @ + 1]
            /\ UNCHANGED location
       ELSE /\ storage' = NoStorage
            /\ location' = "/admin/login"
            /\ tab' = [tab EXCEPT !.req[s].pos = "done",
                                  !.req[s].status = tab.req[s].answer.status]
    /\ UNCHANGED <<creq, cres, ccalls, ctx>>
    /\ TabServerUnchanged

\* AdminLayout.handleLogout up to the await: with a stored refresh token
\* it posts /auth/logout; with none it goes on to the finally block.
LogoutClick ==
    /\ tab.logout.pos = "idle"
    /\ ctx.admin # Null
    /\ IF storage.refresh_token # NoToken
       THEN /\ tab' = [tab EXCEPT !.logout = [pos |-> "posted",
                                              refreshToken |-> storage.refresh_token]]
            /\ UNCHANGED <<storage, location, ctx>>
       ELSE /\ tab' = [tab EXCEPT !.logout.pos = "done"]
            /\ AuthLogout
            /\ location' = "/admin/login"
    /\ UNCHANGED <<creq, cres, ccalls>>
    /\ TabServerUnchanged

\* The server handles /auth/logout: AuthService.logout.
LogoutServer ==
    /\ tab.logout.pos = "posted"
    /\ ledger' = ledger \ LogoutDeletes(tab.logout.refreshToken)
    /\ deleted' = IF FindByToken(tab.logout.refreshToken) # {}
                  THEN deleted \cup {tab.logout.refreshToken} ELSE deleted
    /\ loggedOut' = loggedOut \cup {tab.logout.refreshToken}
    /\ resp' = Response("logout", tab.logout.refreshToken, 200, {},
                        FindByToken(tab.logout.refreshToken) # {}, {}, FALSE)
    /\ tab' = [tab EXCEPT !.logout.pos = "answered"]
    /\ UNCHANGED <<now, admins, nextTokId, pc, loc, calls, issued, okCount>>
    /\ UNCHANGED eventVars
    /\ UNCHANGED <<storage, location, creq, cres, ccalls, ctx>>

\* The answer of /auth/logout arrives: the finally block of handleLogout
\* calls AuthProvider.logout and navigates to the login page.
LogoutFinish ==
    /\ tab.logout.pos = "answered"
    /\ AuthLogout
    /\ location' = "/admin/login"
    /\ tab' = [tab EXCEPT !.logout.pos = "done"]
    /\ UNCHANGED <<creq, cres, ccalls>>
    /\ TabServerUnchanged

NextTabs ==
    \/ Tick
    \/ \E s \in TabSlots : TabSend(s)
    \/ \E s \in TabSlots : TabReceive(s)
    \/ \E s \in TabSlots : TabRefreshServer(s)
    \/ \E s \in TabSlots : TabRefreshReceive(s)
    \/ LogoutClick
    \/ LogoutServer
    \/ LogoutFinish

SpecTabs == InitTabs /\ [][NextTabs]_vars

\* C25: when both requests got 401 while the stored refresh token was
\* valid in the ledger, so that both interceptor runs posted that same
\* token, and the server honoured it, the page is not logged out: once
\* both requests have ended, the storage holds a token pair, the browser
\* has not been sent to the login page, and both requests were sent again.
C25_BothRequestsRetried ==
    (/\ \A s \in TabSlots : tab.req[s].pos = "done" /\ tab.req[s].valid
     /\ tab.req[1].refreshToken = tab.req[2].refreshToken
     /\ \E s \in TabSlots : tab.req[s].answer.status = 200
     /\ tab.logout.pos = "idle")
    => /\ storage.access_token # NoToken
       /\ storage.refresh_token # NoToken
       /\ location # "/admin/login"
       /\ \A s \in TabSlots : tab.req[s].sends = 2

\* C26: once handleLogout has posted the stored refresh token and has
\* finished, the storage holds neither token and no record of the ledger
\* holds a refresh token of the page's session, for good.
C26_LogoutEndsSession ==
    (tab.logout.pos = "done" /\ tab.logout.refreshToken # NoToken)
    => /\ storage.access_token = NoToken
       /\ storage.refresh_token = NoToken
       /\ \A r \in ledger : r.token \notin tab.session

====
